---- MODULE Spec2Model ----
(***************************************************************************)
(* State-machine model of the jobs application (hamse122/mizan_hr_jobs):   *)
(* the Job / Applicant / Education / WorkExperience / Skill tables, the    *)
(* session-gated admin views, the public apply view (validation and       *)
(* persisting are separate steps, so that two submissions interleave),     *)
(* the Django admin-site operations on applicants and the                  *)
(* cleanup_expired_jobs command.                                           *)
(***************************************************************************)
EXTENDS Integers, FiniteSets, Sequences, TLC

(* ----------------------------- bounds --------------------------------- *)
MaxJobs == 2
MaxApplicants == 2
MaxChildren == 1
MaxRows == 1
MaxDay == 1
MaxStatusDay == 9
MaxRecords == 1
MaxTitleLen == 2
MaxCoverLen == 3
MaxPhoneLen == 16
MaxThreshold == 8
MaxSkills == 2
MaxEducation == 2

(* ------------------------- program constants --------------------------- *)
\* a NULL foreign key, or the pk of an instance that is not saved yet
NULL == 0

\* Python's None for a string value (request.POST.get of an absent key)
None == "None"

ADMIN_USERNAME == "xamse"

ADMIN_PASSWORD == "123"

Usernames == {ADMIN_USERNAME, "guest"}

Passwords == {ADMIN_PASSWORD, "wrong"}

Emails == {"x@y.com", "z@y.com"}

Procs == {"p1", "p2"}

DEFAULT_STATUS == "pending"

STATUS_CHOICES == {"pending", "reviewed", "shortlisted", "rejected", "hired"}

\* what request.POST.get('status') can be: a choice, another string, or None
StatusInputs == STATUS_CHOICES \cup {"archived", None}

JobIds == 1..MaxJobs

ApplicantIds == 1..MaxApplicants

Days == 0..MaxDay

Tables == {"education", "work_experience", "skills"}

ApplicantModelFields ==
    {"full_name", "email", "phone", "linkedin", "cover_letter",
     "position_applied", "created_at", "updated_at", "status"}

\* the form with the status field exposed
ApplicantFormFields_with_status ==
    {"full_name", "email", "phone", "linkedin", "cover_letter", "position_applied",
     "status"}

ApplicantFormFields ==
    {"full_name", "email", "phone", "linkedin", "cover_letter", "position_applied"}

EducationModelFields ==
    {"applicant", "school", "degree", "year", "gpa", "major", "honors", "created_at"}

EducationFormFields == {"school", "degree", "year", "gpa", "major", "honors"}

WorkExperienceModelFields ==
    {"applicant", "company", "role", "duration", "description", "start_date",
     "end_date", "is_current", "location", "achievements", "created_at"}

WorkExperienceFormFields ==
    {"company", "role", "duration", "description", "start_date", "end_date",
     "is_current", "location", "achievements"}

SkillModelFields ==
    {"applicant", "name", "category", "proficiency", "years_experience", "created_at"}

SkillFormFields == {"name", "category", "proficiency"}

\* formset_factory(..., can_delete=True): every form of the formset gets a
\* DELETE field, which ends up as a key of its cleaned_data
can_delete == TRUE

(* ------------------------- strings and dates --------------------------- *)
\* A string is the sequence of its characters.
RECURSIVE Str(_, _)

Str(n, c) == IF n = 0 THEN <<>> ELSE Append(Str(n - 1, c), c)

Digits == {"0", "1", "2", "3", "4", "5", "6", "7", "8", "9"}

Letters == {"a", "b", "c", "e", "l", "o", "r", "s", "t", "v", "T", "U"}

Whitespace == {" "}

RECURSIVE lstrip(_), rstrip(_)

\* str.lstrip()
lstrip(s) ==
    IF s # <<>> /\ Head(s) \in Whitespace THEN lstrip(Tail(s)) ELSE s

\* str.rstrip()
rstrip(s) ==
    IF s # <<>> /\ s[Len(s)] \in Whitespace THEN rstrip(SubSeq(s, 1, Len(s) - 1)) ELSE s

\* str.strip()
strip(s) == rstrip(lstrip(s))

\* a DateField that is None
NoDate == -1

\* the start_date, end_date and is_current of a work-experience row
WorkDates ==
    [start_date : Days \cup {NoDate}, end_date : Days \cup {NoDate},
     is_current : BOOLEAN]

NoDates == [start_date |-> NoDate, end_date |-> NoDate, is_current |-> FALSE]

\* the values of tests.py test_applicant_submission
TestFullName == <<<<"T", "e", "s", "t">>, <<"U", "s", "e", "r">>>>

TestPhone == Str(10, "1")

TestCoverLetter ==
    <<"T", "e", "s", "t", " ", "c", "o", "v", "e", "r", " ",
      "l", "e", "t", "t", "e", "r">>

\* a cover letter of the minimum length
LongCoverLetter == Str(50, "a")

(* ------------------------------ state ---------------------------------- *)
VARIABLES
    today,              \* timezone.now().date()
    jobs,               \* Job table: set of [id, deadline]
    applicants,         \* Applicant table: set of [id, email, position_applied, status]
    children,           \* [table -> set of [id, applicant]], with the dates for work_experience
    next_id,            \* auto-increment counters: [job, applicant, education, ...]
    admin_logged_in,    \* request.session['admin_logged_in']
    staff_logged_in,    \* the session's authenticated staff user (admin site)
    response,           \* the last response of a session-gated view or login view
    pc,                 \* per submission: "idle", "valid", "done"
    sub,                \* per submission: the POSTed data of the request in progress
    result,             \* per submission: how the last request ended
    call                \* a call of a read-only function: [f, args, ret, returned]

db == <<jobs, applicants, children, next_id>>

vars == <<today, jobs, applicants, children, next_id, admin_logged_in,
          staff_logged_in, response, pc, sub, result, call>>

NoCall == [f |-> "none", args |-> <<>>, ret |-> <<>>, returned |-> FALSE]

NoSubmission == [email |-> None, position_applied |-> NULL, status |-> None,
                 rows |-> [t \in Tables |-> 0],
                 full_name |-> <<>>, phone |-> <<>>, cover_letter |-> <<>>,
                 work |-> NoDates]

\* full names (the whitespace-separated parts), phones and cover letters that
\* a submission is drawn from
FullNames == {TestFullName, <<<<"T", "e", "s", "t">>>>, <<<<"T", "e", "s", "t">>, <<"U", "1">>>>}

SubmittedPhones == {TestPhone, Str(9, "1"), <<>>}

CoverLetters == {LongCoverLetter, TestCoverLetter, Str(49, "a") \o <<" ">>}

NoResult == [kind |-> "none", errors |-> {}, applicant |-> NULL]

Submissions ==
    [email : Emails, position_applied : JobIds, status : {None, "hired"},
     rows : [Tables -> 0..MaxRows],
     full_name : FullNames, phone : SubmittedPhones, cover_letter : CoverLetters,
     work : WorkDates]

Init ==
    /\ today = 0
    /\ jobs = {}
    /\ applicants = {}
    /\ children = [t \in Tables |-> {}]
    /\ next_id = [t \in Tables \cup {"job", "applicant"} |-> 1]
    /\ admin_logged_in = FALSE
    /\ staff_logged_in = FALSE
    /\ response = "none"
    /\ pc = [p \in Procs |-> "idle"]
    /\ sub = [p \in Procs |-> NoSubmission]
    /\ result = [p \in Procs |-> NoResult]
    /\ call = NoCall

(* --------------------------- storage layer ----------------------------- *)
Row(id) == CHOOSE a \in applicants : a.id = id

ApplicantPks == {a.id : a \in applicants}

JobPks == {j.id : j \in jobs}

\* a row of Education, WorkExperience or Skill; of the columns, the model
\* keeps start_date, end_date and is_current of WorkExperience
child_row(t, id, applicant, dates) ==
    IF t = "work_experience"
        THEN [id |-> id, applicant |-> applicant, start_date |-> dates.start_date,
              end_date |-> dates.end_date, is_current |-> dates.is_current]
        ELSE [id |-> id, applicant |-> applicant]

\* the table without the constraint
unique_together_missing(rows, row) == TRUE

\* Applicant.Meta.unique_together = [['email', 'position_applied']]: the
\* constraint the database enforces on INSERT and UPDATE.  SQL treats NULLs as
\* distinct, so rows whose position_applied is NULL never collide.
unique_together(rows, row) ==
    \A a \in rows :
        (a.id # row.id /\ a.email = row.email /\ row.position_applied # NULL)
            => a.position_applied # row.position_applied

\* position_applied = ForeignKey(Job, ...): the referenced job must exist
foreign_key(row) ==
    row.position_applied = NULL \/ row.position_applied \in JobPks

\* the foreign key declared with on_delete=models.CASCADE
on_delete_SET_NULL_as_cascade(rows, deleted) ==
    {a \in rows : a.position_applied \notin deleted}

\* ForeignKey(Job, on_delete=models.SET_NULL, null=True)
on_delete_SET_NULL(rows, deleted) ==
    {IF a.position_applied \in deleted
        THEN [a EXCEPT !.position_applied = NULL] ELSE a : a \in rows}

\* the foreign key declared with on_delete=models.DO_NOTHING, unchecked
on_delete_CASCADE_as_do_nothing(table, deleted) == table

\* ForeignKey(Applicant, on_delete=models.CASCADE) of Education,
\* WorkExperience and Skill
on_delete_CASCADE(table, deleted) ==
    {c \in table : c.applicant \notin deleted}

\* Job.delete() / QuerySet.delete() for a set of job ids
delete_jobs(deleted) ==
    /\ jobs' = {j \in jobs : j.id \notin deleted}
    /\ applicants' = on_delete_SET_NULL(applicants, deleted)
    /\ UNCHANGED <<children, next_id>>

\* Applicant.delete() for a set of applicant ids
delete_applicants(deleted) ==
    /\ applicants' = {a \in applicants : a.id \notin deleted}
    /\ children' = [t \in Tables |-> on_delete_CASCADE(children[t], deleted)]
    /\ UNCHANGED <<jobs, next_id>>

(* ------------------------ session and login ---------------------------- *)
admin_login(username, password) ==
    /\ IF username = ADMIN_USERNAME /\ password = ADMIN_PASSWORD
          THEN admin_logged_in' = TRUE /\ response' = "redirect_dashboard"
          ELSE UNCHANGED admin_logged_in /\ response' = "rendered"
    /\ UNCHANGED <<call, today, db, staff_logged_in, pc, sub, result>>

\* request.session.flush() drops the whole session
admin_logout ==
    /\ admin_logged_in' = FALSE
    /\ staff_logged_in' = FALSE
    /\ response' = "redirect_login"
    /\ UNCHANGED <<call, today, db, pc, sub, result>>

\* the decorator without its session check
admin_required_unchecked(view_func) == view_func

\* the decorator: without the session flag the view is not called
admin_required(view_func) ==
    IF ~admin_logged_in
        THEN response' = "redirect_login" /\ UNCHANGED db
        ELSE view_func

Frame == UNCHANGED <<call, today, admin_logged_in, staff_logged_in, pc, sub, result>>

(* ------------------------ session-gated views -------------------------- *)
ReadViews == {"admin_dashboard", "job_list", "applicant_list", "statistics_view"}

ReadViewsByPk == {"job_applicants", "export_applicants_view"}

\* admin_dashboard, job_list, applicant_list, statistics_view: render only
read_view(name) ==
    /\ admin_required(response' = "rendered" /\ UNCHANGED db)
    /\ Frame

\* job_applicants, export_applicants_view: get_object_or_404, then render
read_view_by_pk(name, pk) ==
    /\ admin_required(
          /\ response' = IF pk \in JobPks THEN "rendered" ELSE "not_found"
          /\ UNCHANGED db)
    /\ Frame

\* validate_job_deadline raises ValidationError
validate_job_deadline(value) == value < today

\* forms.JobForm: the errors of the deadline field (clean_deadline)
forms_JobForm_errors(deadline) ==
    IF validate_job_deadline(deadline) THEN {"deadline"} ELSE {}

\* views.JobForm: the class statement of views.py rebinds the name JobForm
\* that views.py imported from forms; this class has the three model fields
\* and no clean_* method, and Job.deadline has no validator
JobForm_errors(deadline) == {}

\* POST: JobForm(request.POST).is_valid(), then form.save()
job_create(deadline) ==
    /\ next_id["job"] <= MaxJobs
    /\ admin_required(
          IF JobForm_errors(deadline) # {}
             THEN response' = "rendered" /\ UNCHANGED db
             ELSE /\ jobs' = jobs \cup {[id |-> next_id["job"], deadline |-> deadline]}
                  /\ next_id' = [next_id EXCEPT !["job"] = @ + 1]
                  /\ response' = "redirect_dashboard"
                  /\ UNCHANGED <<applicants, children>>)
    /\ Frame

job_edit(pk, deadline) ==
    /\ admin_required(
          IF pk \notin JobPks
             THEN response' = "not_found" /\ UNCHANGED db
             ELSE IF JobForm_errors(deadline) # {}
                THEN response' = "rendered" /\ UNCHANGED db
                ELSE /\ jobs' = {IF j.id = pk THEN [j EXCEPT !.deadline = deadline]
                                              ELSE j : j \in jobs}
                     /\ response' = "redirect_dashboard"
                     /\ UNCHANGED <<applicants, children, next_id>>)
    /\ Frame

job_delete(pk) ==
    /\ admin_required(
          IF pk \notin JobPks
             THEN response' = "not_found" /\ UNCHANGED db
             ELSE /\ delete_jobs({pk})
                  /\ response' = "redirect_dashboard")
    /\ Frame

\* the list of the view with one value too many
valid_statuses_wide ==
    {"pending", "reviewed", "shortlisted", "rejected", "hired", "archived"}

valid_statuses == {"pending", "reviewed", "shortlisted", "rejected", "hired"}

\* the view with rejected and hired as final statuses
update_applicant_status_final(pk, new_status) ==
    /\ admin_required(
          IF pk \notin ApplicantPks
             THEN response' = "not_found" /\ UNCHANGED db
             ELSE IF /\ new_status \in valid_statuses
                     /\ Row(pk).status \notin {"rejected", "hired"}
                     THEN /\ applicants' =
                               {IF a.id = pk THEN [a EXCEPT !.status = new_status]
                                             ELSE a : a \in applicants}
                          /\ response' = "json_success"
                          /\ UNCHANGED <<jobs, children, next_id>>
                     ELSE response' = "json_invalid_status" /\ UNCHANGED db)
    /\ Frame

update_applicant_status(pk, new_status) ==
    /\ admin_required(
          IF pk \notin ApplicantPks
             THEN response' = "not_found" /\ UNCHANGED db
             ELSE IF new_status \in valid_statuses
                     THEN /\ applicants' =
                               {IF a.id = pk THEN [a EXCEPT !.status = new_status]
                                             ELSE a : a \in applicants}
                          /\ response' = "json_success"
                          /\ UNCHANGED <<jobs, children, next_id>>
                     ELSE response' = "json_invalid_status" /\ UNCHANGED db)
    /\ Frame

(* --------------------------- the apply view ---------------------------- *)
FormFields ==
    [education |-> EducationFormFields,
     work_experience |-> WorkExperienceFormFields,
     skills |-> SkillFormFields]

ModelFields ==
    [education |-> EducationModelFields,
     work_experience |-> WorkExperienceModelFields,
     skills |-> SkillModelFields]

\* the order of the three loops of apply
TableOrder == <<"education", "work_experience", "skills">>

\* the keys of form.cleaned_data for a filled-in row of a formset
cleaned_data_keys(form_fields) ==
    form_fields \cup (IF can_delete THEN {"DELETE"} ELSE {})

\* Model.objects.create(**kwargs) raises TypeError for a keyword that is not
\* a field of the model
model_accepts(model_fields, kwargs) == kwargs \subseteq model_fields

\* X.objects.create(applicant=applicant, **form.cleaned_data) goes through
row_accepted(t) ==
    model_accepts(ModelFields[t], {"applicant"} \cup cleaned_data_keys(FormFields[t]))

\* the loop over table TableOrder[i] raises on its first row
loop_raises(rows, i) ==
    rows[TableOrder[i]] > 0 /\ ~row_accepted(TableOrder[i])

raises_TypeError(rows) == \E i \in 1..3 : loop_raises(rows, i)

\* how many rows of table TableOrder[i] are created before the view ends
created_rows(rows, i) ==
    IF \E j \in 1..i : loop_raises(rows, j) THEN 0 ELSE rows[TableOrder[i]]

\* re.sub(r'[^\d+]', '', value): digits and plus signs are kept, wherever
\* they stand
PhoneCharacters == Digits \cup {"+"}

phone_kept(c) == c \in PhoneCharacters

\* validate_phone_number raises ValidationError; the lengths compared are
\* len(cleaned), the plus signs included
validate_phone_number(value) ==
    LET cleaned == SelectSeq(value, phone_kept)
    IN /\ value # <<>>
       /\ IF cleaned # <<>> /\ Head(cleaned) = "+"
             THEN Len(cleaned) < 10 \/ Len(cleaned) > 15
             ELSE Len(cleaned) < 10 \/ Len(cleaned) > 11

\* validate_cover_letter_length raises ValidationError
min_length == 50

validate_cover_letter_length(value) ==
    value = <<>> \/ Len(strip(value)) < min_length

\* the characters of a name part: letters, hyphen and apostrophe
NameCharacters == Letters \cup {"-", "'"}

\* validate_full_name raises ValidationError; value is given as
\* value.strip().split(), the list of its parts
validate_full_name(parts) ==
    \/ parts = <<>>
    \/ Len(parts) < 2
    \/ \E i \in 1..Len(parts) : Len(parts[i]) < 2
    \/ \E i \in 1..Len(parts) : \E k \in 1..Len(parts[i]) :
          parts[i][k] \notin NameCharacters

\* the phone column: CharField(max_length=20)
phone_max_length == 20

\* ApplicantForm._clean_fields: the fields with an error.  Each field is
\* cleaned on its own: the form field first (required, stripped, max_length),
\* then clean_<field>, which calls the validator for a non-empty value.
field_errors(data) ==
    LET phone == strip(data.phone)
        cover_letter == strip(data.cover_letter)
    IN (IF data.full_name = <<>> \/ validate_full_name(data.full_name)
           THEN {"full_name"} ELSE {})
       \cup
       (IF \/ phone = <<>>
           \/ Len(phone) > phone_max_length
           \/ validate_phone_number(phone)
           THEN {"phone"} ELSE {})
       \cup
       (IF cover_letter = <<>> \/ validate_cover_letter_length(cover_letter)
           THEN {"cover_letter"} ELSE {})

\* WorkExperienceForm.clean raises ValidationError
WorkExperienceForm_clean(dates) ==
    /\ dates.start_date # NoDate
    /\ dates.end_date # NoDate
    /\ ~dates.is_current
    /\ dates.end_date < dates.start_date

\* the formsets with an invalid form: the rows of a submission are
\* well-formed but for the dates of its work-experience rows
formset_errors(data) ==
    IF data.rows["work_experience"] > 0 /\ WorkExperienceForm_clean(data.work)
        THEN {"work_experience"} ELSE {}

\* the check made on the email alone
validate_email_duplicate_any_job(email, job_id, applicant_id) ==
    /\ email # None
    /\ job_id # NULL
    /\ \E a \in applicants :
          /\ a.email = email
          /\ (applicant_id # NULL => a.id # applicant_id)

\* validate_email_duplicate raises ValidationError
validate_email_duplicate(email, job_id, applicant_id) ==
    /\ email # None
    /\ job_id # NULL
    /\ \E a \in applicants :
          /\ a.email = email
          /\ a.position_applied = job_id
          /\ (applicant_id # NULL => a.id # applicant_id)

\* ModelForm._post_clean -> validate_unique: the unique_together check made
\* by the form, against the rows stored at validation time
validate_unique(email, job_id, applicant_id) ==
    ~unique_together(applicants,
        [id |-> applicant_id, email |-> email, position_applied |-> job_id])

\* the form that stops at its first error
form_errors_fail_fast(data) ==
    IF field_errors(data) # {}
        THEN {CHOOSE f \in field_errors(data) : TRUE}
        ELSE IF data.position_applied \notin JobPks
            THEN {"invalid_choice"}
            ELSE IF validate_email_duplicate(data.email, data.position_applied, NULL)
                THEN {"duplicate_application"} ELSE {}

\* ApplicantForm.is_valid(): the errors of the form.  position_applied is a
\* required choice among the stored jobs; clean() and validate_unique() only
\* look at the pair when both fields are valid.
form_errors(data) ==
    field_errors(data)
    \cup
    (IF data.position_applied \notin JobPks
        THEN {"invalid_choice"}
        ELSE (IF validate_email_duplicate(data.email, data.position_applied, NULL)
                 THEN {"duplicate_application"} ELSE {})
             \cup
             (IF validate_unique(data.email, data.position_applied, NULL)
                 THEN {"unique_together"} ELSE {}))

\* the status of the row that applicant_form.save() writes
saved_status(data) ==
    IF "status" \in ApplicantFormFields /\ data.status # None
        THEN data.status ELSE DEFAULT_STATUS

\* apply, first half: the POST arrives and the four forms are validated, all
\* of them (all([...]) builds the whole list); with errors the form is
\* rendered again and the request is over
apply_validate(p, data) ==
    /\ pc[p] \in {"idle", "done"}
    /\ LET errs == form_errors(data) \cup formset_errors(data) IN
         IF errs = {}
            THEN /\ pc' = [pc EXCEPT ![p] = "valid"]
                 /\ sub' = [sub EXCEPT ![p] = data]
                 /\ result' = [result EXCEPT ![p] = NoResult]
            ELSE /\ pc' = [pc EXCEPT ![p] = "done"]
                 /\ sub' = [sub EXCEPT ![p] = NoSubmission]
                 /\ result' = [result EXCEPT ![p] =
                        [kind |-> "form_errors", errors |-> errs, applicant |-> NULL]]
    /\ UNCHANGED <<call, today, db, admin_logged_in, staff_logged_in, response>>

\* apply, second half: applicant_form.save() and the three loops, each
\* statement committed on its own (the view opens no transaction).  An
\* IntegrityError of save() names the constraint the insert violated; no
\* handler of the view catches it, nor the TypeError of a loop.
apply_persist(p) ==
    /\ pc[p] = "valid"
    /\ next_id["applicant"] <= MaxApplicants
    /\ \A i \in 1..3 :
          next_id[TableOrder[i]] + created_rows(sub[p].rows, i) - 1 <= MaxChildren
    /\ pc' = [pc EXCEPT ![p] = "done"]
    /\ sub' = [sub EXCEPT ![p] = NoSubmission]
    /\ LET row == [id |-> next_id["applicant"],
                   email |-> sub[p].email,
                   position_applied |-> sub[p].position_applied,
                   status |-> saved_status(sub[p])]
       IN IF ~(unique_together(applicants, row) /\ foreign_key(row))
             THEN /\ result' = [result EXCEPT ![p] =
                        [kind |-> "IntegrityError",
                         errors |-> IF foreign_key(row) THEN {"unique_together"}
                                                        ELSE {"foreign_key"},
                         applicant |-> NULL]]
                  /\ UNCHANGED db
             ELSE /\ applicants' = applicants \cup {row}
                  /\ children' =
                        [t \in Tables |->
                            LET i == CHOOSE k \in 1..3 : TableOrder[k] = t
                            IN children[t] \cup
                               {child_row(t, n, row.id, sub[p].work) :
                                  n \in next_id[t] ..
                                        (next_id[t] + created_rows(sub[p].rows, i) - 1)}]
                  /\ next_id' =
                        [k \in DOMAIN next_id |->
                            IF k = "applicant" THEN next_id[k] + 1
                            ELSE IF k \in Tables
                               THEN next_id[k] + created_rows(sub[p].rows,
                                        CHOOSE i \in 1..3 : TableOrder[i] = k)
                               ELSE next_id[k]]
                  /\ result' = [result EXCEPT ![p] =
                        [kind |-> IF raises_TypeError(sub[p].rows)
                                     THEN "TypeError" ELSE "redirect_apply_success",
                         errors |-> {}, applicant |-> row.id]]
                  /\ UNCHANGED jobs
    /\ UNCHANGED <<call, today, admin_logged_in, staff_logged_in, response>>

(* ------------------------ the Django admin site ------------------------ *)
AdminFrame == UNCHANGED <<call, today, admin_logged_in, staff_logged_in, response, pc, sub, result>>

\* a staff user signs in to the admin site the models are registered with
staff_login ==
    /\ staff_logged_in' = TRUE
    /\ UNCHANGED <<call, today, db, admin_logged_in, response, pc, sub, result>>

\* ApplicantAdmin change form: email, position_applied and status are edited;
\* the form checks the choices and validate_unique, the database the constraint
applicant_admin_change(pk, email, position, status) ==
    /\ staff_logged_in
    /\ pk \in ApplicantPks
    /\ position \in JobPks
    /\ status \in STATUS_CHOICES
    /\ LET row == [id |-> pk, email |-> email,
                   position_applied |-> position, status |-> status]
       IN IF unique_together(applicants, row) /\ foreign_key(row)
             THEN applicants' = (applicants \ {Row(pk)}) \cup {row}
             ELSE UNCHANGED applicants
    /\ UNCHANGED <<jobs, children, next_id>>
    /\ AdminFrame

\* ApplicantAdmin delete
applicant_admin_delete(pk) ==
    /\ staff_logged_in
    /\ pk \in ApplicantPks
    /\ delete_applicants({pk})
    /\ AdminFrame

AdminActions ==
    [mark_as_reviewed |-> "reviewed",
     mark_as_shortlisted |-> "shortlisted",
     mark_as_rejected |-> "rejected"]

\* ApplicantAdmin actions: queryset.update(status=...)
applicant_admin_action(action, selected) ==
    /\ staff_logged_in
    /\ selected # {}
    /\ selected \subseteq ApplicantPks
    /\ applicants' = {IF a.id \in selected
                         THEN [a EXCEPT !.status = AdminActions[action]]
                         ELSE a : a \in applicants}
    /\ UNCHANGED <<jobs, children, next_id>>
    /\ AdminFrame

\* EducationInline, WorkExperienceInline, SkillInline: add a record.  The
\* inlines use the default ModelForm of their model, and WorkExperience has
\* no clean(): the dates are stored as entered.
inline_add(t, pk, dates) ==
    /\ staff_logged_in
    /\ pk \in ApplicantPks
    /\ next_id[t] <= MaxChildren
    /\ children' = [children EXCEPT ![t] = @ \cup {child_row(t, next_id[t], pk, dates)}]
    /\ next_id' = [next_id EXCEPT ![t] = @ + 1]
    /\ UNCHANGED <<jobs, applicants>>
    /\ AdminFrame

\* the inlines have can_delete = True
inline_delete(t, c) ==
    /\ staff_logged_in
    /\ c \in children[t]
    /\ children' = [children EXCEPT ![t] = @ \ {c}]
    /\ UNCHANGED <<jobs, applicants, next_id>>
    /\ AdminFrame

(* -------------------- cleanup_expired_jobs and time -------------------- *)
\* get_jobs_by_status('expired')
expired_jobs == {j \in jobs : j.deadline < today}

CleanupOptions == {"dry_run", "delete", "report"}

cleanup_expired_jobs ==
    /\ \E option \in CleanupOptions :
          IF expired_jobs # {} /\ option = "delete"
             THEN delete_jobs({j.id : j \in expired_jobs})
             ELSE UNCHANGED db
    /\ UNCHANGED <<call, today, admin_logged_in, staff_logged_in, response, pc, sub, result>>

\* the date advances
Tick ==
    /\ today < MaxDay
    /\ today' = today + 1
    /\ UNCHANGED <<call, db, admin_logged_in, staff_logged_in, response, pc, sub, result>>

(* ------------------------ read-only functions -------------------------- *)
ReadFrame ==
    UNCHANGED <<today, db, admin_logged_in, staff_logged_in, response, pc, sub, result>>

\* Job.is_expired with the deadline itself counted as passed
is_expired_inclusive(job) == job.deadline <= today

\* Job.is_expired
is_expired(job) == job.deadline < today

\* Job.days_until_deadline (Job.deadline is not nullable)
days_until_deadline(job) == job.deadline - today

\* Job.get_status with the two thresholds exchanged
get_status_swapped(job) ==
    IF is_expired(job) THEN "Expired"
    ELSE IF days_until_deadline(job) <= 3 THEN "Soon"
    ELSE IF days_until_deadline(job) <= 7 THEN "Urgent"
    ELSE "Active"

\* Job.get_status
get_status(job) ==
    IF is_expired(job) THEN "Expired"
    ELSE IF days_until_deadline(job) <= 3 THEN "Urgent"
    ELSE IF days_until_deadline(job) <= 7 THEN "Soon"
    ELSE "Active"

\* a call of job.get_status() for a stored job
Job_get_status(pk) ==
    /\ pk \in JobPks
    /\ LET job == CHOOSE j \in jobs : j.id = pk
       IN call' = [f |-> "get_status",
                   args |-> [deadline |-> job.deadline, today |-> today],
                   ret |-> get_status(job), returned |-> TRUE]
    /\ ReadFrame

\* QuerySet.order_by('deadline') / order_by('-deadline'): the sequences of
\* the rows in that order; rows of equal deadline come in any order
order_by(rows, descending) ==
    {s \in [1..Cardinality(rows) -> rows] :
        /\ \A i, k \in 1..Cardinality(rows) : i # k => s[i] # s[k]
        /\ \A i, k \in 1..Cardinality(rows) :
              i < k => IF descending THEN s[i].deadline >= s[k].deadline
                                     ELSE s[i].deadline <= s[k].deadline}

Buckets == {"active", "expired", "all"}

\* the filter of get_jobs_by_status with both buckets ascending
get_jobs_by_status_ascending(status) ==
    IF status = "active"
        THEN order_by({j \in jobs : j.deadline >= today}, FALSE)
    ELSE IF status = "expired"
        THEN order_by({j \in jobs : j.deadline < today}, FALSE)
    ELSE order_by(jobs, TRUE)

\* get_jobs_by_status: the querysets it can return
get_jobs_by_status(status) ==
    IF status = "active"
        THEN order_by({j \in jobs : j.deadline >= today}, FALSE)
    ELSE IF status = "expired"
        THEN order_by({j \in jobs : j.deadline < today}, TRUE)
    ELSE order_by(jobs, TRUE)

\* a call of get_jobs_by_status(status)
call_get_jobs_by_status(status) ==
    /\ \E queryset \in get_jobs_by_status(status) :
          call' = [f |-> "get_jobs_by_status",
                   args |-> [status |-> status, jobs |-> jobs, today |-> today],
                   ret |-> queryset, returned |-> TRUE]
    /\ ReadFrame

\* utils.calculate_days_until_deadline (the job and its deadline are present)
calculate_days_until_deadline(job) == job.deadline - today

\* Job.is_urgent with today itself left out
is_urgent_exclusive(job, days) ==
    LET days_left == days_until_deadline(job)
    IN 0 < days_left /\ days_left <= days

\* Job.is_urgent(days)
is_urgent(job, days) ==
    LET days_left == days_until_deadline(job)
    IN 0 <= days_left /\ days_left <= days

\* the is_urgent template filter
filter_is_urgent(job, days) ==
    LET days_left == calculate_days_until_deadline(job)
    IN 0 <= days_left /\ days_left <= days

\* the application_status template filter with Urgent ending before day 3
application_status_strict(job) ==
    LET days_left == calculate_days_until_deadline(job)
    IN IF days_left < 0 THEN "Expired"
       ELSE IF days_left < 3 THEN "Urgent"
       ELSE IF days_left <= 7 THEN "Soon"
       ELSE "Active"

\* the application_status template filter
application_status(job) ==
    LET days_left == calculate_days_until_deadline(job)
    IN IF days_left < 0 THEN "Expired"
       ELSE IF days_left <= 3 THEN "Urgent"
       ELSE IF days_left <= 7 THEN "Soon"
       ELSE "Active"

\* get_upcoming_deadlines with the last day left out
get_upcoming_deadlines_exclusive(days) ==
    LET future_date == today + days
    IN order_by({j \in jobs : j.deadline >= today /\ j.deadline < future_date}, FALSE)

\* get_upcoming_deadlines(days): the querysets it can return
get_upcoming_deadlines(days) ==
    LET future_date == today + days
    IN order_by({j \in jobs : j.deadline >= today /\ j.deadline <= future_date}, FALSE)

\* a call of get_upcoming_deadlines(days)
call_get_upcoming_deadlines(days) ==
    /\ \E queryset \in get_upcoming_deadlines(days) :
          call' = [f |-> "get_upcoming_deadlines",
                   args |-> [days |-> days, jobs |-> jobs, today |-> today],
                   ret |-> queryset, returned |-> TRUE]
    /\ ReadFrame

\* a call returns
return(f, value) ==
    /\ call.f = f
    /\ ~call.returned
    /\ call' = [call EXCEPT !.ret = value, !.returned = TRUE]
    /\ ReadFrame

\* a call of validate_phone_number(value): it raises or returns None
call_validate_phone_number ==
    return("validate_phone_number",
           IF validate_phone_number(call.args) THEN "ValidationError" ELSE "None")

\* bool(value) of a string or None
truthy(value) == value # "" /\ value # None

\* QuerySet.exists() of a related manager, given the number of its records
exists(records) == records > 0

\* Python's min for two integers
min(a, b) == IF a <= b THEN a ELSE b

\* Count('applicants') of a job: the applicants that reference it
applicant_count(job) ==
    Cardinality({a \in applicants : a.position_applied = job.id})

\* QuerySet.order_by('-applicant_count'): the sequences of the rows in that
\* order; the query names no second key, so rows of equal count come in any
\* order
order_by_applicant_count(rows) ==
    {s \in [1..Cardinality(rows) -> rows] :
        /\ \A i, k \in 1..Cardinality(rows) : i # k => s[i] # s[k]
        /\ \A i, k \in 1..Cardinality(rows) :
              i < k => applicant_count(s[i]) >= applicant_count(s[k])}

\* queryset[:n]
slice(queryset, n) == SubSeq(queryset, 1, min(n, Len(queryset)))

\* round(n / d, 2) in hundredths, for a quotient that is no tie between two
\* hundredths (a tie needs a denominator that is a multiple of 8)
round_2(n, d) == (200 * n + d) \div (2 * d)

\* aggregate(avg=Count('applicants')) over the jobs joined with their
\* applicants: nonzero exactly when an applicant references a stored job
total_with_applicants ==
    Cardinality({a \in applicants : a.position_applied \in JobPks})

\* round(avg_applicants, 2) of get_job_statistics, in hundredths
avg_applicants ==
    IF Cardinality(jobs) > 0 /\ total_with_applicants # 0
        THEN round_2(Cardinality(applicants), Cardinality(jobs))
        ELSE 0

\* get_job_statistics: the dictionaries it can return
get_job_statistics ==
    {[total_jobs |-> Cardinality(jobs),
      total_applicants |-> Cardinality(applicants),
      active_jobs |-> Cardinality({j \in jobs : j.deadline >= today}),
      expired_jobs |-> Cardinality({j \in jobs : j.deadline < today}),
      jobs_with_most_applicants |-> slice(queryset, 5),
      average_applicants_per_job |-> avg_applicants] :
        queryset \in order_by_applicant_count(jobs)}

\* a call of get_job_statistics()
call_get_job_statistics ==
    /\ \E stats \in get_job_statistics :
          call' = [f |-> "get_job_statistics",
                   args |-> [jobs |-> jobs, applicants |-> applicants, today |-> today],
                   ret |-> stats, returned |-> TRUE]
    /\ ReadFrame

\* Applicant.status choices: (value, display name), in the order declared
status_choices ==
    <<<<"pending", "Pending Review">>, <<"reviewed", "Reviewed">>,
      <<"shortlisted", "Shortlisted">>, <<"rejected", "Rejected">>,
      <<"hired", "Hired">>>>

\* applicants.filter(status=status_code).count() for the applicants of a job
status_count(pk, status_code) ==
    Cardinality({a \in applicants : a.position_applied = pk /\ a.status = status_code})

\* applicants_by_status of api_job_detail (status_count of
\* JobAdmin.applicant_statistics is built by the same loop): the dictionary is
\* keyed by status_name, the display name of the choice
applicants_by_status(pk) ==
    LET counted == {i \in 1..Len(status_choices) : status_count(pk, status_choices[i][1]) > 0}
    IN [status_name \in {status_choices[i][2] : i \in counted} |->
           LET i == CHOOSE k \in counted : status_choices[k][2] = status_name
           IN status_count(pk, status_choices[i][1])]

\* api_helpers.api_success
api_success(data) ==
    [kind |-> "JsonResponse", status_code |-> 200, success |-> TRUE, data |-> data]

\* api_helpers.api_error
api_error(message, status_code) ==
    [kind |-> "JsonResponse", status_code |-> status_code, success |-> FALSE,
     message |-> message]

\* an exception leaves the function
raise(exception) == [kind |-> "raise", exception |-> exception]

\* the decorator handle_api_exceptions: every exception of the wrapped
\* function becomes an error response
handle_api_exceptions(outcome) ==
    IF outcome.kind # "raise" THEN outcome
    ELSE IF outcome.exception = "ObjectDoesNotExist"
        THEN api_error("Resource not found", 404)
    ELSE IF outcome.exception = "ValidationError"
        THEN api_error("Validation failed", 400)
    ELSE IF outcome.exception = "PermissionError"
        THEN api_error("Permission denied", 403)
    ELSE api_error("An unexpected error occurred", 500)

\* what a query raises when the database cannot be reached
OperationalError == "OperationalError"

\* api_job_detail; `failure`: the database fails on the first query
api_job_detail(pk, failure) ==
    handle_api_exceptions(
        IF failure THEN raise(OperationalError)
        ELSE IF pk \notin JobPks THEN api_error("Job not found", 404)
        ELSE LET job == CHOOSE j \in jobs : j.id = pk
             IN api_success(
                    [id |-> job.id,
                     deadline |-> job.deadline,
                     days_until_deadline |-> days_until_deadline(job),
                     is_active |-> ~is_expired(job),
                     is_urgent |-> is_urgent(job, 7),
                     applicant_count |-> applicant_count(job),
                     status |-> get_status(job),
                     applicants_summary |->
                        [total |-> applicant_count(job),
                         by_status |-> applicants_by_status(pk)]]))

\* a call of api_job_detail
call_api_job_detail(pk, failure) ==
    /\ call' = [f |-> "api_job_detail",
                args |-> [pk |-> pk, failure |-> failure, jobs |-> jobs,
                          applicants |-> applicants, today |-> today],
                ret |-> api_job_detail(pk, failure), returned |-> TRUE]
    /\ ReadFrame

\* the default page_size of api_job_list
page_size == 20

\* one entry of job_list
job_entry(job) ==
    [id |-> job.id,
     deadline |-> job.deadline,
     days_until_deadline |-> days_until_deadline(job),
     applicant_count |-> applicant_count(job),
     status |-> get_status(job),
     is_active |-> ~is_expired(job),
     is_urgent |-> is_urgent(job, 7)]

\* api_job_list with the status parameter given, no search string and the
\* first page of the default size: the responses it can return
api_job_list(status, failure) ==
    IF failure THEN {handle_api_exceptions(raise(OperationalError))}
    ELSE LET filtered ==
                 IF status = "active" THEN {j \in jobs : j.deadline >= today}
                 ELSE IF status = "expired" THEN {j \in jobs : j.deadline < today}
                 ELSE jobs
         IN {handle_api_exceptions(api_success(
                 [jobs |-> [i \in 1..min(page_size, Len(queryset)) |->
                               job_entry(queryset[i])],
                  pagination |-> [current_page |-> 1,
                                  total_items |-> Len(queryset),
                                  page_size |-> page_size]])) :
                queryset \in order_by(filtered, FALSE)}

\* a call of api_job_list
call_api_job_list(status, failure) ==
    /\ \E r \in api_job_list(status, failure) :
          call' = [f |-> "api_job_list",
                   args |-> [status |-> status, failure |-> failure, jobs |-> jobs,
                             today |-> today],
                   ret |-> r, returned |-> TRUE]
    /\ ReadFrame

\* the code points of the characters that names are compared by
ord == [a |-> 97, b |-> 98]

\* the values of Skill.SKILL_CATEGORIES in the order in which the database
\* compares them
CategoryOrder ==
    <<"cloud", "database", "framework", "other", "programming", "soft", "tools">>

category_position(category) ==
    CHOOSE i \in 1..Len(CategoryOrder) : CategoryOrder[i] = category

\* the default of Skill.category
default_category == "other"

\* ORDER BY: the sequences of all the rows in which no row comes after a row
\* that it precedes in the order asked for; rows that the order does not tell
\* apart come in any order
sorted_by(rows, before(_, _)) ==
    {s \in [1..Cardinality(rows) -> rows] :
        /\ \A i, k \in 1..Cardinality(rows) : i # k => s[i] # s[k]
        /\ \A i, k \in 1..Cardinality(rows) : i < k => ~before(s[k], s[i])}

\* top_skills of statistics_view, for the Skill table given:
\* values('name').annotate(count=Count('id')).order_by('-count')[:10]
top_skills(skills) ==
    LET groups == {[name |-> n, count |-> Cardinality({r \in skills : r.name = n})] :
                      n \in {r.name : r \in skills}}
    IN {slice(queryset, 10) :
           queryset \in sorted_by(groups, LAMBDA x, y : x.count > y.count)}

\* Skill.Meta.ordering = ['category', 'name']
Skill_ordering(x, y) ==
    \/ category_position(x.category) < category_position(y.category)
    \/ /\ x.category = y.category
       /\ ord[x.name] < ord[y.name]

\* Education.Meta.ordering = ['-year']
Education_ordering(x, y) == x.year > y.year

\* WorkExperience.Meta.ordering = ['-start_date', '-end_date'], for rows
\* without dates
WorkExperience_ordering(x, y) == FALSE

\* the record of export_applicants_to_dict for one applicant: the lists it
\* can hold
export_applicant(applicant) ==
    {[full_name |-> applicant.full_name,
      email |-> applicant.email,
      education |-> [i \in 1..Len(education) |->
                        [school |-> education[i].school, year |-> education[i].year]],
      work_experience |-> [i \in 1..Len(work) |-> [company |-> work[i].company]],
      skills |-> [i \in 1..Len(skills) |-> skills[i].name]] :
        education \in sorted_by(applicant.education_history, Education_ordering),
        work \in sorted_by(applicant.work_experience, WorkExperience_ordering),
        skills \in sorted_by(applicant.skills, Skill_ordering)}

\* an applicant created from an exported record: the rows are created in the
\* order of the lists, with the defaults of the models for what the record
\* does not hold
import_applicant(data) ==
    [full_name |-> data.full_name,
     email |-> data.email,
     education_history |->
        {[id |-> i, school |-> data.education[i].school, year |-> data.education[i].year] :
            i \in 1..Len(data.education)},
     work_experience |->
        {[id |-> i, company |-> data.work_experience[i].company] :
            i \in 1..Len(data.work_experience)},
     skills |->
        {[id |-> i, name |-> data.skills[i], category |-> default_category] :
            i \in 1..Len(data.skills)}]

\* the score with 15 points for the skills
get_profile_completeness_score_skills_15(self) ==
    min((IF truthy(self.full_name) /\ truthy(self.email) /\ truthy(self.phone)
            THEN 30 ELSE 0)
        + (IF truthy(self.cover_letter) THEN 20 ELSE 0)
        + (IF exists(self.education_history) THEN 15 ELSE 0)
        + (IF exists(self.work_experience) THEN 15 ELSE 0)
        + (IF exists(self.skills) THEN 15 ELSE 0)
        + (IF truthy(self.linkedin) THEN 10 ELSE 0), 100)

\* Applicant.get_profile_completeness_score
get_profile_completeness_score(self) ==
    min((IF truthy(self.full_name) /\ truthy(self.email) /\ truthy(self.phone)
            THEN 30 ELSE 0)
        + (IF truthy(self.cover_letter) THEN 20 ELSE 0)
        + (IF exists(self.education_history) THEN 15 ELSE 0)
        + (IF exists(self.work_experience) THEN 15 ELSE 0)
        + (IF exists(self.skills) THEN 10 ELSE 0)
        + (IF truthy(self.linkedin) THEN 10 ELSE 0), 100)

\* a call of applicant.get_profile_completeness_score()
call_get_profile_completeness_score ==
    return("get_profile_completeness_score", get_profile_completeness_score(call.args))

\* A Python float (IEEE-754 double) between 0 and 2, as the multiple of 2^-56
\* that it is exactly: value = (hi * FloatBase + lo) * 2^-56, in two limbs
\* that fit the integers of the model checker.
FloatBase == 2^28

\* the literals 0.0, 0.1, 0.2, 0.3 and 1.0, each the double nearest to it
Float_0_0 == [hi |-> 0, lo |-> 0]

Float_0_1 == [hi |-> 26843545, lo |-> 161061274]

Float_0_2 == [hi |-> 53687091, lo |-> 53687092]

Float_0_3 == [hi |-> 80530636, lo |-> 214748364]

Float_1_0 == [hi |-> 268435456, lo |-> 0]

\* the spacing of the doubles around a value, in units of 2^-56: 53
\* significant bits
float_spacing(hi) ==
    IF hi >= 2^28 THEN 16
    ELSE IF hi >= 2^27 THEN 8
    ELSE IF hi >= 2^26 THEN 4
    ELSE IF hi >= 2^25 THEN 2
    ELSE 1

\* a + b of two floats: the exact sum, rounded to the nearest double, a tie
\* to the even one
float_add(a, b) ==
    LET lo == (a.lo + b.lo) % FloatBase
        hi == a.hi + b.hi + ((a.lo + b.lo) \div FloatBase)
        q == float_spacing(hi)
        r == lo % q
        up == \/ 2 * r > q
              \/ 2 * r = q /\ (lo \div q) % 2 = 1
        rounded == IF up THEN lo - r + q ELSE lo - r
    IN IF rounded = FloatBase THEN [hi |-> hi + 1, lo |-> 0]
                              ELSE [hi |-> hi, lo |-> rounded]

\* min(a, b) of two floats
float_min(a, b) ==
    IF a.hi < b.hi \/ (a.hi = b.hi /\ a.lo <= b.lo) THEN a ELSE b

Uppercase == [A |-> "a", T |-> "t", U |-> "u"]

\* str.lower()
lower(s) ==
    [i \in 1..Len(s) |-> IF s[i] \in DOMAIN Uppercase THEN Uppercase[s[i]] ELSE s[i]]

\* needle in s, for two strings
contains(needle, s) ==
    \E i \in 0..(Len(s) - Len(needle)) : SubSeq(s, i + 1, i + Len(needle)) = needle

\* score += weight, when the condition holds
add_if(score, condition, weight) ==
    IF condition THEN float_add(score, weight) ELSE score

\* calculate_applicant_match_score
calculate_applicant_match_score(applicant, job) ==
    LET s1 == add_if(Float_0_0,
                     contains(lower(job.title), lower(applicant.cover_letter)), Float_0_3)
        s2 == add_if(s1, exists(applicant.work_experience), Float_0_2)
        s3 == add_if(s2, exists(applicant.education_history), Float_0_2)
        s4 == add_if(s3, exists(applicant.skills), Float_0_2)
        s5 == add_if(s4, truthy(applicant.linkedin), Float_0_1)
    IN float_min(s5, Float_1_0)

\* a call of calculate_applicant_match_score(applicant, job)
call_calculate_applicant_match_score ==
    return("calculate_applicant_match_score",
           calculate_applicant_match_score(call.args.applicant, call.args.job))

(* --------------------------- specification ----------------------------- *)
Next ==
    \/ \E u \in Usernames, pw \in Passwords : admin_login(u, pw)
    \/ admin_logout
    \/ \E name \in ReadViews : read_view(name)
    \/ \E name \in ReadViewsByPk, pk \in JobIds : read_view_by_pk(name, pk)
    \/ \E d \in Days : job_create(d)
    \/ \E pk \in JobIds, d \in Days : job_edit(pk, d)
    \/ \E pk \in JobIds : job_delete(pk)
    \/ \E pk \in ApplicantIds, s \in StatusInputs : update_applicant_status(pk, s)
    \/ \E p \in Procs, data \in Submissions : apply_validate(p, data)
    \/ \E p \in Procs : apply_persist(p)
    \/ staff_login
    \/ \E pk \in ApplicantIds, e \in Emails, j \in JobIds, s \in STATUS_CHOICES :
          applicant_admin_change(pk, e, j, s)
    \/ \E pk \in ApplicantIds : applicant_admin_delete(pk)
    \/ \E action \in DOMAIN AdminActions, selected \in SUBSET ApplicantIds :
          applicant_admin_action(action, selected)
    \/ \E t \in Tables, pk \in ApplicantIds, dates \in WorkDates : inline_add(t, pk, dates)
    \/ \E t \in Tables : \E c \in children[t] : inline_delete(t, c)
    \/ cleanup_expired_jobs
    \/ Tick

Spec == Init /\ [][Next]_vars

(***************************************************************************)
(* Spec is the whole application.  The specifications below restrict it to *)
(* the operations that read or write what a group of properties is about,  *)
(* with the same actions and smaller input sets.                           *)
(***************************************************************************)

\* submissions of the form's own fields only: no status key in the POST and
\* no education, work-experience or skill row
PlainSubmissions ==
    [email : Emails, position_applied : JobIds, status : {None},
     rows : {[t \in Tables |-> 0]},
     full_name : {TestFullName}, phone : {TestPhone},
     cover_letter : {LongCoverLetter}, work : {NoDates}]

\* Concurrent submissions against job deletion and the admin site's applicant
\* edits and deletions: everything that writes Applicant.email and
\* Applicant.position_applied.
NextRace ==
    \/ admin_login(ADMIN_USERNAME, ADMIN_PASSWORD)
    \/ job_create(MaxDay)
    \/ \E pk \in JobPks : job_delete(pk)
    \/ \E p \in Procs, data \in PlainSubmissions : apply_validate(p, data)
    \/ \E p \in Procs : apply_persist(p)
    \/ staff_login
    \/ \E pk \in ApplicantPks, e \in Emails, j \in JobIds :
          applicant_admin_change(pk, e, j, Row(pk).status)
    \/ \E pk \in ApplicantPks : applicant_admin_delete(pk)

SpecRace == Init /\ [][NextRace]_vars

\* submissions whose POST carries status=hired next to the form's fields
StatusSubmissions ==
    [email : Emails, position_applied : JobIds, status : {"hired"},
     rows : [Tables -> 0..MaxRows],
     full_name : {TestFullName}, phone : {TestPhone},
     cover_letter : {LongCoverLetter}, work : {NoDates}]

\* One visitor submitting full applications (a status key in the POST, rows in
\* the three formsets), one after the other, while jobs come and go.
NextSubmit ==
    \/ admin_login(ADMIN_USERNAME, ADMIN_PASSWORD)
    \/ job_create(MaxDay)
    \/ \E pk \in JobPks : job_delete(pk)
    \/ \E data \in StatusSubmissions : apply_validate("p1", data)
    \/ apply_persist("p1")

SpecSubmit == Init /\ [][NextSubmit]_vars

\* submissions of one email address
OneEmailSubmissions ==
    [email : {"x@y.com"}, position_applied : JobIds, status : {None},
     rows : {[t \in Tables |-> 0]},
     full_name : {TestFullName}, phone : {TestPhone},
     cover_letter : {LongCoverLetter}, work : {NoDates}]

\* The review side: logging in and out, every session-gated view, and every
\* writer of Applicant.status (submission, status update, admin-site change
\* form and admin-site actions).
NextReview ==
    \/ \E u \in Usernames, pw \in Passwords : admin_login(u, pw)
    \/ admin_logout
    \/ \E name \in ReadViews : read_view(name)
    \/ \E name \in ReadViewsByPk, pk \in JobIds : read_view_by_pk(name, pk)
    \/ job_create(MaxDay)
    \/ \E pk \in JobPks : job_edit(pk, MaxDay)
    \/ \E pk \in JobPks : job_delete(pk)
    \/ \E pk \in ApplicantIds, s \in StatusInputs : update_applicant_status(pk, s)
    \/ \E data \in OneEmailSubmissions : apply_validate("p1", data)
    \/ apply_persist("p1")
    \/ staff_login
    \/ \E pk \in ApplicantPks, s \in STATUS_CHOICES :
          applicant_admin_change(pk, Row(pk).email, Row(pk).position_applied, s)
    \/ \E action \in DOMAIN AdminActions, selected \in SUBSET ApplicantIds :
          applicant_admin_action(action, selected)

SpecReview == Init /\ [][NextReview]_vars

\* Applicants with their education, work-experience and skill records (added
\* and removed through the admin-site inlines) against applicant deletion.
NextCascade ==
    \/ admin_login(ADMIN_USERNAME, ADMIN_PASSWORD)
    \/ job_create(MaxDay)
    \/ \E data \in OneEmailSubmissions : apply_validate("p1", data)
    \/ apply_persist("p1")
    \/ staff_login
    \/ \E t \in Tables, pk \in ApplicantPks : inline_add(t, pk, NoDates)
    \/ \E t \in Tables : \E c \in children[t] : inline_delete(t, c)
    \/ \E pk \in ApplicantPks : applicant_admin_delete(pk)

SpecCascade == Init /\ [][NextCascade]_vars

\* Job deletion, by the job_delete view and by cleanup_expired_jobs as the
\* date advances, with applicants that own skill records.
NextJobDelete ==
    \/ admin_login(ADMIN_USERNAME, ADMIN_PASSWORD)
    \/ \E d \in Days : job_create(d)
    \/ \E pk \in JobPks : job_delete(pk)
    \/ cleanup_expired_jobs
    \/ Tick
    \/ \E data \in OneEmailSubmissions : apply_validate("p1", data)
    \/ apply_persist("p1")
    \/ \E pk \in ApplicantPks : update_applicant_status(pk, "hired")
    \/ staff_login
    \/ \E pk \in ApplicantPks : inline_add("skills", pk, NoDates)

SpecJobDelete == Init /\ [][NextJobDelete]_vars

\* submissions of one visitor with every combination of full name, phone and
\* cover letter, without rows or with one row in each formset
FieldSubmissions ==
    [email : {"x@y.com"}, position_applied : JobIds, status : {None},
     rows : {[t \in Tables |-> 0], [t \in Tables |-> 1]},
     full_name : FullNames, phone : SubmittedPhones,
     cover_letter : CoverLetters, work : {NoDates}]

\* Validation of the applicant form: one visitor, jobs created by the admin.
NextValidate ==
    \/ admin_login(ADMIN_USERNAME, ADMIN_PASSWORD)
    \/ job_create(MaxDay)
    \/ \E data \in FieldSubmissions : apply_validate("p1", data)
    \/ apply_persist("p1")

SpecValidate == Init /\ [][NextValidate]_vars

\* submissions with at most one work-experience row, of any dates
WorkSubmissions ==
    [email : {"x@y.com"}, position_applied : JobIds, status : {None},
     rows : {[t \in Tables |-> 0],
             [t \in Tables |-> IF t = "work_experience" THEN 1 ELSE 0]},
     full_name : {TestFullName}, phone : {TestPhone},
     cover_letter : {LongCoverLetter}, work : WorkDates]

\* The two writers of WorkExperience: the apply view and the inline of the
\* admin site's applicant page.
NextWork ==
    \/ admin_login(ADMIN_USERNAME, ADMIN_PASSWORD)
    \/ job_create(MaxDay)
    \/ \E data \in WorkSubmissions : apply_validate("p1", data)
    \/ apply_persist("p1")
    \/ staff_login
    \/ \E pk \in ApplicantPks, dates \in WorkDates :
          inline_add("work_experience", pk, dates)

SpecWork == Init /\ [][NextWork]_vars

StatusDays == 0..MaxStatusDay

\* Jobs of any deadline on any date
InitStatus ==
    /\ today \in StatusDays
    /\ jobs = {}
    /\ applicants = {}
    /\ children = [t \in Tables |-> {}]
    /\ next_id = [t \in Tables \cup {"job", "applicant"} |-> 1]
    /\ admin_logged_in = FALSE
    /\ staff_logged_in = FALSE
    /\ response = "none"
    /\ pc = [p \in Procs |-> "idle"]
    /\ sub = [p \in Procs |-> NoSubmission]
    /\ result = [p \in Procs |-> NoResult]
    /\ call = NoCall

\* The status of jobs and the job buckets, with jobs that the admin creates.
NextStatus ==
    \/ admin_login(ADMIN_USERNAME, ADMIN_PASSWORD)
    \/ \E d \in StatusDays : job_create(d)
    \/ \E pk \in JobPks : Job_get_status(pk)
    \/ \E status \in Buckets : call_get_jobs_by_status(status)

SpecStatus == InitStatus /\ [][NextStatus]_vars

\* the thresholds in days that urgency is asked for
Thresholds == 0..MaxThreshold

\* the arguments get_upcoming_deadlines is called with: none (the default of
\* 7 days), and 0
UpcomingDays == {0, 7}

\* Jobs of any deadline on any date, and the deadlines coming up.
NextDeadlines ==
    \/ admin_login(ADMIN_USERNAME, ADMIN_PASSWORD)
    \/ \E d \in StatusDays : job_create(d)
    \/ \E days \in UpcomingDays : call_get_upcoming_deadlines(days)

SpecDeadlines == InitStatus /\ [][NextDeadlines]_vars

\* on any date of Days
InitStatistics ==
    /\ today \in Days
    /\ jobs = {}
    /\ applicants = {}
    /\ children = [t \in Tables |-> {}]
    /\ next_id = [t \in Tables \cup {"job", "applicant"} |-> 1]
    /\ admin_logged_in = FALSE
    /\ staff_logged_in = FALSE
    /\ response = "none"
    /\ pc = [p \in Procs |-> "idle"]
    /\ sub = [p \in Procs |-> NoSubmission]
    /\ result = [p \in Procs |-> NoResult]
    /\ call = NoCall

\* Jobs created and deleted, applicants stored and reviewed, and the
\* statistics read.
NextStatistics ==
    \/ admin_login(ADMIN_USERNAME, ADMIN_PASSWORD)
    \/ \E d \in Days : job_create(d)
    \/ \E pk \in JobPks : job_delete(pk)
    \/ \E data \in OneEmailSubmissions : apply_validate("p1", data)
    \/ apply_persist("p1")
    \/ \E pk \in ApplicantPks : update_applicant_status(pk, "hired")
    \/ call_get_job_statistics
    \/ \E pk \in JobIds, failure \in BOOLEAN : call_api_job_detail(pk, failure)
    \/ \E status \in Buckets, failure \in BOOLEAN : call_api_job_list(status, failure)

SpecStatistics == InitStatistics /\ [][NextStatistics]_vars

\* a table of at most n rows with the ids 1, 2, ... and the columns of Columns
TablesOf(Columns, n) ==
    UNION {{{[c \in {"id"} \cup DOMAIN f[i] |-> IF c = "id" THEN i ELSE f[i][c]] :
                i \in 1..k} : f \in [1..k -> Columns]} : k \in 0..n}

SkillNames == {"a", "b"}

\* the applicants whose records are exported: skills of three categories,
\* education of two years
ExportedApplicants ==
    [full_name : {"Test User"}, email : {"x@y.com"},
     education_history : TablesOf([school : {"s", "t"}, year : {2019, 2020}], MaxEducation),
     work_experience : TablesOf([company : {"c"}], 1),
     skills : TablesOf([name : SkillNames, category : {"database", "other", "tools"}],
                       MaxSkills)]

\* the Skill tables that the statistics are computed of
SkillTables == TablesOf([name : SkillNames], MaxSkills + 1)

InitQueries ==
    /\ today = 0
    /\ jobs = {}
    /\ applicants = {}
    /\ children = [t \in Tables |-> {}]
    /\ next_id = [t \in Tables \cup {"job", "applicant"} |-> 1]
    /\ admin_logged_in = FALSE
    /\ staff_logged_in = FALSE
    /\ response = "none"
    /\ pc = [p \in Procs |-> "idle"]
    /\ sub = [p \in Procs |-> NoSubmission]
    /\ result = [p \in Procs |-> NoResult]
    /\ call \in
          {[f |-> "top_skills", args |-> skills, ret |-> <<>>, returned |-> FALSE] :
              skills \in SkillTables}
          \cup
          {[f |-> "export_round_trip", args |-> applicant, ret |-> <<>>,
            returned |-> FALSE] : applicant \in ExportedApplicants}

\* top_skills is computed
call_top_skills ==
    /\ call.f = "top_skills"
    /\ ~call.returned
    /\ \E queryset \in top_skills(call.args) :
          call' = [call EXCEPT !.ret = queryset, !.returned = TRUE]
    /\ ReadFrame

\* an applicant is exported, created again from the record, and exported again
call_export_round_trip ==
    /\ call.f = "export_round_trip"
    /\ ~call.returned
    /\ \E exported \in export_applicant(call.args) :
          \E reexported \in export_applicant(import_applicant(exported)) :
             call' = [call EXCEPT !.ret = [exported |-> exported,
                                          reexported |-> reexported],
                                  !.returned = TRUE]
    /\ ReadFrame

\* The queries over the Skill table and over the records of an applicant.
NextQueries ==
    \/ call_top_skills
    \/ call_export_round_trip

SpecQueries == InitQueries /\ [][NextQueries]_vars

\* the strings of at most n characters of an alphabet
Strings(alphabet, n) == UNION {[1..k -> alphabet] : k \in 0..n}

\* a phone of n characters: plus signs at two positions, a separator at a
\* third, digits elsewhere (position 0 is nowhere)
Phone(n, plus1, plus2, dash) ==
    [x \in 1..n |-> IF x \in {plus1, plus2} THEN "+"
                    ELSE IF x = dash THEN "-" ELSE "1"]

Phones ==
    {Phone(n, plus1, plus2, dash) :
        n \in 0..MaxPhoneLen, plus1 \in 0..1, plus2 \in 0..MaxPhoneLen, dash \in 0..2}

\* the fields and the record counts of an applicant that the completeness
\* score reads
Profiles ==
    [full_name : {"", "Test User"}, email : {"", "x@y.com"},
     phone : {"", "1234567890"}, cover_letter : {"", "Test cover letter"},
     linkedin : {None, "", "https://linkedin.com/in/x"},
     education_history : 0..MaxRecords, work_experience : 0..MaxRecords,
     skills : 0..MaxRecords]

\* an applicant and a job that the match score reads
Matches ==
    [applicant : [cover_letter : Strings({"a", "A", "b"}, MaxCoverLen),
                  linkedin : {None, "https://linkedin.com/in/x"},
                  education_history : 0..MaxRecords, work_experience : 0..MaxRecords,
                  skills : 0..MaxRecords],
     job : [title : Strings({"a", "A"}, MaxTitleLen) \ {<<>>}]]

\* the calls of the pure functions, with their arguments
Calls ==
    {[f |-> "validate_phone_number", args |-> value, ret |-> <<>>, returned |-> FALSE] :
        value \in Phones}
    \cup
    {[f |-> "get_profile_completeness_score", args |-> self, ret |-> <<>>,
      returned |-> FALSE] : self \in Profiles}
    \cup
    {[f |-> "calculate_applicant_match_score", args |-> m, ret |-> <<>>,
      returned |-> FALSE] : m \in Matches}

InitFunctions ==
    /\ today = 0
    /\ jobs = {}
    /\ applicants = {}
    /\ children = [t \in Tables |-> {}]
    /\ next_id = [t \in Tables \cup {"job", "applicant"} |-> 1]
    /\ admin_logged_in = FALSE
    /\ staff_logged_in = FALSE
    /\ response = "none"
    /\ pc = [p \in Procs |-> "idle"]
    /\ sub = [p \in Procs |-> NoSubmission]
    /\ result = [p \in Procs |-> NoResult]
    /\ call \in Calls

\* The pure functions, each applied to arguments of its own.
NextFunctions ==
    \/ call_validate_phone_number
    \/ call_get_profile_completeness_score
    \/ call_calculate_applicant_match_score

SpecFunctions == InitFunctions /\ [][NextFunctions]_vars

TypeOK ==
    /\ today \in Days \cup StatusDays
    /\ \A j \in jobs : j.id \in JobIds /\ j.deadline \in Days \cup StatusDays
    /\ \A a \in applicants : a.id \in ApplicantIds /\ a.email \in Emails
    /\ pc \in [Procs -> {"idle", "valid", "done"}]

(* ------------------------------ properties ----------------------------- *)
SamePair(a, data) ==
    a.email = data.email /\ a.position_applied = data.position_applied

\* C1: in every reachable state no two stored applicants have the same email
\* and the same non-null position_applied.
C1_UniqueEmailPerJob ==
    \A a, b \in applicants :
        (a.id # b.id /\ a.email = b.email /\ a.position_applied # NULL)
            => a.position_applied # b.position_applied

\* a submission lost the race for its (email, job) pair: the database refused
\* its insert, and two rows of one email (for two jobs) are stored
C1_Witness ==
    /\ \E p \in Procs :
          /\ result[p].kind = "IntegrityError"
          /\ "unique_together" \in result[p].errors
    /\ \E a, b \in applicants :
          /\ a.id # b.id
          /\ a.email = b.email
          /\ a.position_applied # NULL

\* C2: a submission whose (email, job) pair is already stored is rejected with
\* the duplicate-application error and stores nothing; a submission of the same
\* email for another existing job passes validation and its row is stored.
\* (Only a step that changes p's request or response can be a submission of p.)
C2_DuplicateRejected ==
    [][/\ \A p \in Procs :
            (pc[p] \in {"idle", "done"} /\ (pc'[p] = "valid" \/ result'[p] # result[p])) =>
            \A data \in PlainSubmissions :
                (/\ IF pc'[p] = "valid"
                       THEN /\ data.email = sub'[p].email
                            /\ data.position_applied = sub'[p].position_applied
                       ELSE data.position_applied \in JobPks
                                <=> "invalid_choice" \notin result'[p].errors
                 /\ apply_validate(p, data)) =>
                    IF \E a \in applicants : SamePair(a, data)
                       THEN /\ pc'[p] = "done"
                            /\ result'[p].kind = "form_errors"
                            /\ "duplicate_application" \in result'[p].errors
                            /\ applicants' = applicants
                       ELSE data.position_applied \in JobPks => pc'[p] = "valid"
       /\ \A p \in Procs :
            (/\ apply_persist(p)
             /\ sub[p].position_applied \in JobPks
             /\ ~\E a \in applicants : SamePair(a, sub[p]))
            => \E a \in applicants' \ applicants : SamePair(a, sub[p])]_vars

\* one email stored for two jobs, and a further submission turned down as a
\* duplicate
C2_Witness ==
    /\ \E p \in Procs :
          /\ pc[p] = "done"
          /\ result[p].kind = "form_errors"
          /\ "duplicate_application" \in result[p].errors
    /\ \E a, b \in applicants :
          /\ b.email = a.email
          /\ a.position_applied # NULL
          /\ b.position_applied \notin {NULL, a.position_applied}

\* C3: apply is atomic: a persisting step stores either nothing, or the
\* applicant together with every education, work-experience and skill row
\* that was submitted with it.
C3_ApplyIsAtomic ==
    [][\A p \in Procs :
          apply_persist(p) =>
             \/ applicants' = applicants /\ children' = children
             \/ \E a \in applicants' \ applicants :
                   \A t \in Tables :
                      Cardinality({c \in children'[t] : c.applicant = a.id})
                         = sub[p].rows[t]]_vars

\* C4: the submission that loses a race for its (email, job) pair ends with
\* the duplicate-application form error, not with an unhandled exception.
C4_RaceLoserGetsFormError ==
    [][\A p \in Procs :
          (apply_persist(p) /\ \E a \in applicants : SamePair(a, sub[p]))
             => /\ result'[p].kind = "form_errors"
                /\ "duplicate_application" \in result'[p].errors]_vars

\* C6: every applicant row written by a submission has status pending,
\* whatever status the POST carries.
C6_CreatedPending ==
    [][\A p \in Procs :
          apply_persist(p) =>
             \A a \in applicants' \ applicants : a.status = "pending"]_vars

\* a submission was stored as pending (every POST of SpecSubmit carries
\* status=hired)
C6_Witness ==
    \E p \in Procs :
        /\ pc[p] = "done"
        /\ result[p].kind = "redirect_apply_success"
        /\ \E a \in applicants : a.id = result[p].applicant /\ a.status = "pending"

\* C5: an authorized status update with a value outside the five statuses
\* answers with the error result and leaves every applicant as stored, and
\* every stored applicant's status is one of the five values.
C5_InvalidStatusRejected ==
    /\ [](\A a \in applicants : a.status \in STATUS_CHOICES)
    /\ [][\A pk \in ApplicantPks, s \in StatusInputs \ STATUS_CHOICES :
            (admin_logged_in /\ update_applicant_status(pk, s))
               => response' = "json_invalid_status" /\ applicants' = applicants]_vars

\* an invalid value was turned down while an applicant is under review
C5_Witness ==
    /\ admin_logged_in
    /\ response = "json_invalid_status"
    /\ \E a \in applicants : a.status = "reviewed"

\* C7: with an admin login, an applicant in any status can be moved to any of
\* the five statuses by one status update.
C7_AnyTransition ==
    \A a \in applicants, t \in STATUS_CHOICES :
        admin_logged_in =>
            ENABLED (/\ update_applicant_status(a.id, t)
                     /\ response' = "json_success"
                     /\ \E b \in applicants' : b.id = a.id /\ b.status = t)

\* an update went through with one applicant hired and another rejected
C7_Witness ==
    /\ admin_logged_in
    /\ response = "json_success"
    /\ \E a, b \in applicants : a.status = "hired" /\ b.status = "rejected"

\* a step of one of the session-gated views
GatedStep ==
    \/ \E name \in ReadViews : read_view(name)
    \/ \E name \in ReadViewsByPk, pk \in JobIds : read_view_by_pk(name, pk)
    \/ \E d \in Days : job_create(d)
    \/ \E pk \in JobIds, d \in Days : job_edit(pk, d)
    \/ \E pk \in JobIds : job_delete(pk)
    \/ \E pk \in ApplicantIds, st \in StatusInputs : update_applicant_status(pk, st)

\* C8: without the admin login every session-gated view answers with the
\* redirect to the login page and changes no record; a stored applicant's
\* status changes only in a step taken with a login (the session's admin login
\* or, for the admin site, its staff login).
C8_AdminGate ==
    /\ [][(~admin_logged_in /\ GatedStep)
            => /\ response' = "redirect_login"
               /\ UNCHANGED <<jobs, applicants, children>>]_vars
    /\ [][(\E a \in applicants : \E b \in applicants' :
              a.id = b.id /\ a.status # b.status)
            => (admin_logged_in \/ staff_logged_in)]_vars

\* logged out, a gated view was refused while a job and a reviewed applicant
\* are stored
C8_Witness ==
    /\ ~admin_logged_in
    /\ ~staff_logged_in
    /\ response = "redirect_login"
    /\ jobs # {}
    /\ \E a \in applicants : a.status = "shortlisted"

\* C9: every education, work-experience and skill record references a stored
\* applicant, and a step that deletes applicants removes exactly the records
\* they own.
C9_CascadeDelete ==
    /\ [](\A t \in Tables : \A c \in children[t] : c.applicant \in ApplicantPks)
    /\ [][(ApplicantPks' # ApplicantPks /\ ApplicantPks' \subseteq ApplicantPks)
            => \A t \in Tables :
                  children'[t] = {c \in children[t] : c.applicant \in ApplicantPks'}]_vars

\* an applicant is gone together with its record, another applicant's record
\* is still there
C9_Witness ==
    /\ Cardinality(applicants) = 1
    /\ next_id["applicant"] = 3
    /\ \E t \in Tables : next_id[t] > 1 /\ children[t] = {}
    /\ \E t \in Tables : \E c \in children[t] : c.applicant \in ApplicantPks

\* C10: a step that deletes jobs deletes no applicant and no education,
\* work-experience or skill record: the applicants of the deleted jobs get a
\* null position_applied, everything else stays as it is.
C10_JobDeleteKeepsApplicants ==
    [][(JobPks' # JobPks /\ JobPks' \subseteq JobPks)
         => /\ applicants' =
                 {IF a.position_applied \in JobPks \ JobPks'
                     THEN [a EXCEPT !.position_applied = NULL] ELSE a : a \in applicants}
            /\ children' = children]_vars

\* a hired applicant with a skill record outlives its job, next to an
\* applicant whose job is still there
C10_Witness ==
    /\ \E a \in applicants :
          /\ a.position_applied = NULL
          /\ a.status = "hired"
          /\ \E c \in children["skills"] : c.applicant = a.id
    /\ \E b \in applicants : b.position_applied \in JobPks

\* C11: every job that the job_create view stores has a deadline that is not
\* before the current date, and a job_create request with a deadline before
\* the current date stores no job.
C11_DeadlineNotPast ==
    [][\A d \in Days :
          job_create(d) =>
             /\ \A j \in jobs' : j.id \notin JobPks => j.deadline >= today
             /\ d < today => jobs' = jobs]_vars

\* the rule of a field of the applicant form is violated by a submission
RuleViolated(f, data) ==
    CASE f = "full_name" -> validate_full_name(data.full_name)
      [] f = "phone" -> strip(data.phone) = <<>> \/ validate_phone_number(strip(data.phone))
                        \/ Len(strip(data.phone)) > phone_max_length
      [] f = "cover_letter" -> validate_cover_letter_length(strip(data.cover_letter))

\* C12: a submission is answered with an error for every field whose rule it
\* violates, and with the duplicate-application error when its (email, job)
\* pair is stored; a submission with any of these errors stores nothing.
\* (Only a step that changes p's request or response can be a submission of p.)
C12_AllErrorsReported ==
    [][\A p \in Procs :
          <<sub[p], result[p]>>' # <<sub[p], result[p]>> =>
          \A data \in FieldSubmissions :
              apply_validate(p, data) =>
                 LET violated ==
                        {f \in {"full_name", "phone", "cover_letter"} : RuleViolated(f, data)}
                        \cup (IF \E a \in applicants : SamePair(a, data)
                                 THEN {"duplicate_application"} ELSE {})
                 IN violated # {} =>
                       /\ pc'[p] = "done"
                       /\ result'[p].kind = "form_errors"
                       /\ violated \subseteq result'[p].errors
                       /\ db' = db]_vars

\* a duplicate submission with an invalid phone and an invalid cover letter
\* got the three errors
C12_Witness ==
    \E p \in Procs :
        /\ result[p].kind = "form_errors"
        /\ {"phone", "cover_letter", "duplicate_application"} \subseteq result[p].errors
        /\ "full_name" \notin result[p].errors

\* the submission of test_applicant_submission: a full name of two parts, a
\* phone of ten digits, a cover letter that is not empty, and one row in each
\* of the three formsets
TestSubmission(data) ==
    /\ Len(data.full_name) = 2
    /\ ~validate_full_name(data.full_name)
    /\ Len(data.phone) = 10
    /\ \A i \in 1..Len(data.phone) : data.phone[i] \in Digits
    /\ strip(data.cover_letter) # <<>>
    /\ \A t \in Tables : data.rows[t] = 1

\* C13: such a submission for a stored job, of an email without a stored
\* application for it, passes validation, and when it is persisted the view
\* answers with the success redirect and an applicant with the email is
\* stored.
C13_TestSubmissionAccepted ==
    [][\A p \in Procs :
          /\ <<sub[p], result[p]>>' # <<sub[p], result[p]>> =>
               \A data \in FieldSubmissions :
                  (/\ apply_validate(p, data)
                   /\ TestSubmission(data)
                   /\ data.position_applied \in JobPks
                   /\ ~\E a \in applicants : SamePair(a, data))
                  => pc'[p] = "valid"
          /\ (apply_persist(p) /\ TestSubmission(sub[p]) /\ foreign_key(sub[p]))
               => /\ result'[p].kind = "redirect_apply_success"
                  /\ \E a \in applicants' : a.email = sub[p].email]_vars

\* C14: the status that get_status returns is Expired exactly for a deadline
\* before today, and otherwise Urgent, Soon or Active exactly for a number of
\* days left of at most 3, of 4 to 7, and of 8 or more.
C14_JobStatus ==
    call.f = "get_status" =>
        LET daysLeft == call.args.deadline - call.args.today
        IN /\ call.ret = "Expired" <=> call.args.deadline < call.args.today
           /\ call.args.deadline >= call.args.today =>
                 /\ call.ret = "Urgent" <=> daysLeft <= 3
                 /\ call.ret = "Soon" <=> (4 <= daysLeft /\ daysLeft <= 7)
                 /\ call.ret = "Active" <=> daysLeft >= 8

\* the status of a job whose deadline is today: Urgent
C14_Witness ==
    /\ call.f = "get_status"
    /\ call.args.deadline = call.args.today
    /\ call.ret = "Urgent"

\* the position of a status in the order Active, Soon, Urgent, Expired
StatusRank(status) ==
    CASE status = "Active" -> 1
      [] status = "Soon" -> 2
      [] status = "Urgent" -> 3
      [] status = "Expired" -> 4

\* C15: on any date, of two jobs the one with the earlier deadline has a
\* status at the same or a later position in the order Active, Soon, Urgent,
\* Expired.
C15_StatusMonotone ==
    \A j1, j2 \in jobs :
        j1.deadline <= j2.deadline =>
            StatusRank(get_status(j1)) >= StatusRank(get_status(j2))

\* a job that is Soon next to a job of a later deadline that is Active, and
\* the status of one of them was asked for
C15_Witness ==
    /\ call.f = "get_status"
    /\ \E j1, j2 \in jobs :
          /\ j1.deadline < j2.deadline
          /\ get_status(j1) = "Soon"
          /\ get_status(j2) = "Active"

\* the jobs of a queryset
InQuerySet(queryset) == {queryset[i] : i \in 1..Len(queryset)}

\* C20: get_jobs_by_status returns each stored job once: for active the jobs
\* with deadline >= today by ascending deadline, for expired the jobs with
\* deadline < today by descending deadline, for all every job; so the active
\* and the expired bucket are disjoint and together hold the jobs of all.
C20_JobBuckets ==
    /\ call.f = "get_jobs_by_status" =>
          LET queryset == call.ret
              n == Len(queryset)
          IN /\ Cardinality(InQuerySet(queryset)) = n
             /\ call.args.status = "active" =>
                   /\ InQuerySet(queryset) =
                         {j \in call.args.jobs : j.deadline >= call.args.today}
                   /\ \A i \in 1..n - 1 : queryset[i].deadline <= queryset[i + 1].deadline
             /\ call.args.status = "expired" =>
                   /\ InQuerySet(queryset) =
                         {j \in call.args.jobs : j.deadline < call.args.today}
                   /\ \A i \in 1..n - 1 : queryset[i].deadline >= queryset[i + 1].deadline
             /\ call.args.status = "all" => InQuerySet(queryset) = call.args.jobs
    /\ \A active \in get_jobs_by_status("active"), expired \in get_jobs_by_status("expired"),
          all \in get_jobs_by_status("all") :
          /\ InQuerySet(active) \cap InQuerySet(expired) = {}
          /\ InQuerySet(active) \cup InQuerySet(expired) = InQuerySet(all)

\* the expired bucket with two jobs of different deadlines
C20_Witness ==
    /\ call.f = "get_jobs_by_status"
    /\ call.args.status = "expired"
    /\ Len(call.ret) = 2
    /\ call.ret[1].deadline > call.ret[2].deadline

\* C16: the completeness score is the sum of 30, 20, 15, 15, 10 and 10 over
\* the conditions that hold, an integer from 0 to 100; it is 30 for an
\* applicant with only name, email and phone, and 40 with skill records added.
C16_CompletenessScore ==
    (call.f = "get_profile_completeness_score" /\ call.returned) =>
        LET self == call.args
            contact == self.full_name # "" /\ self.email # "" /\ self.phone # ""
            linkedin == self.linkedin \notin {None, ""}
            bare == /\ contact
                    /\ self.cover_letter = ""
                    /\ ~linkedin
                    /\ self.education_history = 0
                    /\ self.work_experience = 0
        IN /\ call.ret =
                 (IF contact THEN 30 ELSE 0)
                 + (IF self.cover_letter # "" THEN 20 ELSE 0)
                 + (IF self.education_history >= 1 THEN 15 ELSE 0)
                 + (IF self.work_experience >= 1 THEN 15 ELSE 0)
                 + (IF self.skills >= 1 THEN 10 ELSE 0)
                 + (IF linkedin THEN 10 ELSE 0)
           /\ call.ret \in 0..100
           /\ (bare /\ self.skills = 0) => call.ret = 30
           /\ (bare /\ self.skills >= 1) => call.ret = 40

\* the score 40 of an applicant with name, email, phone and one skill
C16_Witness ==
    /\ call.f = "get_profile_completeness_score"
    /\ call.returned
    /\ call.args.skills = 1
    /\ call.args.cover_letter = ""
    /\ call.ret = 40

\* the doubles nearest to 0.1, 0.2, ..., 1.0: what the float literals of
\* these values are
Tenths ==
    <<[hi |-> 26843545, lo |-> 161061274], [hi |-> 53687091, lo |-> 53687092],
      [hi |-> 80530636, lo |-> 214748364], [hi |-> 107374182, lo |-> 107374184],
      [hi |-> 134217728, lo |-> 0], [hi |-> 161061273, lo |-> 161061272],
      [hi |-> 187904819, lo |-> 53687088], [hi |-> 214748364, lo |-> 214748368],
      [hi |-> 241591910, lo |-> 107374184], [hi |-> 268435456, lo |-> 0]>>

\* C17: the match score is the float k/10, for k the sum of 3 (the job title
\* occurs in the cover letter, letter case ignored), 2 (work experience), 2
\* (education), 2 (skills) and 1 (linkedin) over the conditions that hold: 0.3
\* for the title alone, 0.4 with linkedin added, 1.0 for all five.
C17_MatchScoreTenths ==
    (call.f = "calculate_applicant_match_score" /\ call.returned) =>
        LET applicant == call.args.applicant
            k == (IF contains(lower(call.args.job.title), lower(applicant.cover_letter))
                     THEN 3 ELSE 0)
                 + (IF applicant.work_experience >= 1 THEN 2 ELSE 0)
                 + (IF applicant.education_history >= 1 THEN 2 ELSE 0)
                 + (IF applicant.skills >= 1 THEN 2 ELSE 0)
                 + (IF applicant.linkedin \notin {None, ""} THEN 1 ELSE 0)
        IN call.ret = IF k = 0 THEN [hi |-> 0, lo |-> 0] ELSE Tenths[k]

\* what the phone rule counts: the digits of a value
DigitCount(value) == Len(SelectSeq(value, LAMBDA c : c \in Digits))

\* C18: validate_phone_number accepts a value exactly when its number of
\* digits is from 10 to 11, or from 10 to 15 for a value with a leading plus
\* sign; no plus sign is counted.
C18_PhoneDigits ==
    (call.f = "validate_phone_number" /\ call.returned /\ call.args # <<>>) =>
        (call.ret = "None" <=>
            /\ DigitCount(call.args) >= 10
            /\ DigitCount(call.args) <= (IF Head(call.args) = "+" THEN 15 ELSE 11))

\* C19: every stored WorkExperience with is_current false and both dates
\* present has end_date >= start_date.
C19_WorkDatesOrdered ==
    \A w \in children["work_experience"] :
        (~w.is_current /\ w.start_date # NoDate /\ w.end_date # NoDate) =>
            w.end_date >= w.start_date

\* the rows of a queryset
Rows(queryset) == {queryset[i] : i \in 1..Len(queryset)}

\* C25: get_upcoming_deadlines(days) returns exactly the jobs with
\* today <= deadline <= today + days, each once, in ascending order of deadline.
C25_UpcomingDeadlines ==
    call.f = "get_upcoming_deadlines" =>
        LET a == call.args
        IN /\ Rows(call.ret) =
                 {j \in a.jobs : a.today <= j.deadline /\ j.deadline <= a.today + a.days}
           /\ \A i, k \in 1..Len(call.ret) :
                 i < k => /\ call.ret[i] # call.ret[k]
                          /\ call.ret[i].deadline <= call.ret[k].deadline

\* a job due in exactly `days` days is returned, a job due one day later is not
C25_Witness ==
    /\ call.f = "get_upcoming_deadlines"
    /\ \E j \in Rows(call.ret) : j.deadline = call.args.today + call.args.days
    /\ \E j \in call.args.jobs \ Rows(call.ret) :
          j.deadline = call.args.today + call.args.days + 1

\* C28: on every date and for every stored job, Job.get_status and the
\* application_status filter give the same label, and Job.is_urgent(days) and
\* the is_urgent filter the same boolean.
C28_StatusImplementationsAgree ==
    \A j \in jobs :
        /\ get_status(j) = application_status(j)
        /\ get_status(j) \in {"Expired", "Urgent", "Soon", "Active"}
        /\ \A days \in Thresholds : is_urgent(j, days) <=> filter_is_urgent(j, days)

\* a job three days before its deadline and a job past its deadline
C28_Witness ==
    /\ \E j \in jobs : j.deadline = today + 3 /\ application_status(j) = "Urgent"
    /\ \E j \in jobs : j.deadline < today /\ application_status(j) = "Expired"

\* C29: for every threshold d and every stored job, is_urgent(d) holds exactly
\* when 0 <= daysLeft <= d, exactly when the job is in
\* get_upcoming_deadlines(d); for d = 7 exactly when the status is Urgent or
\* Soon; an Expired job is not urgent for any threshold.
C29_UrgentIffUpcoming ==
    \A j \in jobs : \A d \in Thresholds :
        LET daysLeft == j.deadline - today
        IN /\ is_urgent(j, d) <=> (0 <= daysLeft /\ daysLeft <= d)
           /\ \A queryset \in get_upcoming_deadlines(d) :
                 is_urgent(j, d) <=> j \in Rows(queryset)
           /\ d = 7 => (is_urgent(j, d) <=> get_status(j) \in {"Urgent", "Soon"})
           /\ get_status(j) = "Expired" => ~is_urgent(j, d)

\* a job due today, urgent for the threshold 0, next to an expired job
C29_Witness ==
    /\ \E j \in jobs : j.deadline = today /\ is_urgent(j, 0)
    /\ \E j \in jobs : get_status(j) = "Expired" /\ ~is_urgent(j, MaxThreshold)

\* C21: average_applicants_per_job is total_applicants / total_jobs rounded to
\* 2 decimals (here in hundredths) when there are jobs, and 0 without jobs;
\* total_applicants counts every stored applicant, those of a deleted job
\* included.
C21_AverageApplicants ==
    call.f = "get_job_statistics" =>
        LET a == call.args
            A == Cardinality(a.applicants)
            J == Cardinality(a.jobs)
            h == call.ret.average_applicants_per_job
        IN /\ call.ret.total_applicants = A
           /\ call.ret.total_jobs = J
           /\ IF J > 0
                 THEN /\ 2 * (100 * A - h * J) <= J
                      /\ 2 * (h * J - 100 * A) <= J
                 ELSE h = 0

\* C22: jobs_with_most_applicants holds at most 5 jobs, in descending order of
\* applicant count and ascending order of id among equal counts; no job left
\* out comes before a job included in that order.
C22_TopJobs ==
    call.f = "get_job_statistics" =>
        LET a == call.args
            top == call.ret.jobs_with_most_applicants
            count(job) == Cardinality({x \in a.applicants : x.position_applied = job.id})
            Before(j1, j2) ==
                \/ count(j1) > count(j2)
                \/ count(j1) = count(j2) /\ j1.id < j2.id
        IN /\ Len(top) <= 5
           /\ Len(top) = min(5, Cardinality(a.jobs))
           /\ \A i, k \in 1..Len(top) : i < k => Before(top[i], top[k])
           /\ \A j \in a.jobs \ Rows(top) : \A i \in 1..Len(top) : ~Before(j, top[i])

\* the sum of the values of a dictionary
RECURSIVE SumOf(_)

SumOf(d) ==
    IF DOMAIN d = {} THEN 0
    ELSE LET k == CHOOSE x \in DOMAIN d : TRUE
         IN d[k] + SumOf([x \in DOMAIN d \ {k} |-> d[x]])

\* C24: the status breakdown of a job's applicants is keyed by the status
\* values, holds exactly the statuses that one of these applicants has, each
\* with the number of applicants of that status, and sums to the job's number
\* of applicants.
C24_StatusBreakdown ==
    (call.f = "api_job_detail" /\ call.ret.success) =>
        LET of_job == {a \in call.args.applicants : a.position_applied = call.args.pk}
            summary == call.ret.data.applicants_summary
        IN /\ summary.total = Cardinality(of_job)
           /\ SumOf(summary.by_status) = summary.total
           /\ DOMAIN summary.by_status = {a.status : a \in of_job}
           /\ DOMAIN summary.by_status \subseteq STATUS_CHOICES
           /\ \A s \in DOMAIN summary.by_status :
                 summary.by_status[s] = Cardinality({a \in of_job : a.status = s})

\* C26: a failure of the database during api_job_list or api_job_detail leaves
\* the view as the exception that was raised, not as a response.
C26_FailurePropagates ==
    (call.f \in {"api_job_list", "api_job_detail"} /\ call.args.failure) =>
        /\ call.ret.kind = "raise"
        /\ call.ret.exception = OperationalError

\* the ids of the rows of a queryset, in its order
Ids(queryset) == [i \in 1..Len(queryset) |-> queryset[i].id]

\* C30: for each bucket, api_job_list returns the jobs of get_jobs_by_status in
\* the same order; its numbers of active and of expired jobs are active_jobs
\* and expired_jobs of get_job_statistics, which add up to total_jobs.
C30_ListMatchesBuckets ==
    [][(call'.f = "api_job_list" /\ call' # call /\ ~call'.args.failure) =>
          LET status == call'.args.status
              data == call'.ret.data
          IN /\ \E queryset \in get_jobs_by_status(status) :
                   Ids(queryset) = Ids(data.jobs)
             /\ \A stats \in get_job_statistics :
                   /\ status = "active" => data.pagination.total_items = stats.active_jobs
                   /\ status = "expired" => data.pagination.total_items = stats.expired_jobs
                   /\ stats.active_jobs + stats.expired_jobs = stats.total_jobs]_vars

\* C23: top_skills holds at most 10 (name, count) pairs, one for each skill
\* name (all of them while there are at most 10), count being the number of
\* Skill rows of exactly that name, in descending order of count and ascending
\* order of name among equal counts.
C23_TopSkills ==
    (call.f = "top_skills" /\ call.returned) =>
        LET skills == call.args
            names == {r.name : r \in skills}
            top == call.ret
            Before(x, y) ==
                \/ x.count > y.count
                \/ x.count = y.count /\ ord[x.name] < ord[y.name]
        IN /\ Len(top) = min(10, Cardinality(names))
           /\ \A i \in 1..Len(top) :
                 /\ top[i].name \in names
                 /\ top[i].count = Cardinality({r \in skills : r.name = top[i].name})
           /\ \A i, k \in 1..Len(top) : i < k => Before(top[i], top[k])

\* C27: the export of the applicant created from an exported record is that
\* record again: the same full_name and email, the same education,
\* work-experience and skill entries, in the same order.
C27_ExportRoundTrip ==
    (call.f = "export_round_trip" /\ call.returned) =>
        call.ret.reexported = call.ret.exported

====
